---- MODULE Spec2Model ----
(***************************************************************************)
(* The resume / merge / skipped-ledger protocol of the two directory       *)
(* scrapers, mycommunity.py and mycommunitydirectory.py, over a            *)
(* spreadsheet used as a row store.                                        *)
(*                                                                         *)
(* Strings of the program are TLA+ strings.  A cell that holds a           *)
(* ", "-joined list (the services column, a category name) is the          *)
(* sequence of its ", "-separated pieces, so that a name containing ", "   *)
(* is a sequence of more than one piece; Split and Join work on this form. *)
(* The row store (gspread) and the page fetchers are the environment: a    *)
(* worksheet is a sequence of rows, row 1 being the header row, and a      *)
(* fetch returns the page of the site or fails.                            *)
(***************************************************************************)
EXTENDS Integers, Sequences, FiniteSets, TLC

VARIABLES
    script,                \* which of the two scripts this behaviour runs
    tracking,              \* the tracking worksheet (data rows, in sheet order)
    sheet,                 \* the output worksheet, header row included
    skipped_sheet,         \* the "Skipped Link" worksheet, header row included
    pc,                    \* "idle" (no run in progress), "main" (for loop over URLs), "sub" (loop over listings)
    runs,                  \* per run so far: how it ended, whether a fetch failed, whether it was
                           \* stopped after appending rows for some listings of a subcategory
    last_scraped,          \* the last-scraped subcategory URL read at the start of the run
    subcategory_data,      \* mycommunity.py: the tracking entries fetch_subcategory_links returned
    subcategory_urls,      \* the subcategory URLs computed at the start of the run
    todo,                  \* the URLs the run's for loop iterates
    k,                     \* position in todo of the subcategory being (or next to be) scraped
    items,                 \* the listings of the subcategory being scraped
    j,                     \* position in items of the next listing
    category_info,         \* mycommunitydirectory.py: category metadata of the page being scraped
    existing_companies,    \* mycommunitydirectory.py: snapshot of the output sheet taken per subcategory
    existing_skipped_data, \* mycommunitydirectory.py: snapshot of the skipped sheet taken per subcategory
    events,                \* what the current run has done so far, in order
    call,                  \* a function applied on its own: its name and its arguments
    ret                    \* what that function returned

vars == <<script, tracking, sheet, skipped_sheet, pc, runs, last_scraped, subcategory_data,
          subcategory_urls, todo, k, items, j, category_info, existing_companies, existing_skipped_data, events,
          call, ret>>

-----------------------------------------------------------------------------
(* Bounds of the model *)

MaxTrack == 3      \* data rows of the tracking sheet
MaxRuns == 2       \* runs of the script in one behaviour

(* Values of the model *)

\* each script configures its own council
COUNCIL_NAME == IF script = "mycommunity" THEN "Banyule Council" ELSE "Gabo Island Council"
OtherCouncil == "Other Council"
None == "None"
NA == "N/A"

-----------------------------------------------------------------------------
(* Strings *)

\* str.lower() on the strings of the model
Lower(s) ==
    CASE s = "U1" -> "u1"
      [] s = "N/A" -> "n/a"
      [] s = "Services" -> "services"
      [] OTHER -> s

\* str.strip() on the strings of the model
Strip(s) ==
    CASE s = " 0" -> "0"
      [] s = " " -> ""
      [] OTHER -> s

\* code point order of the pieces that occur in services cells
TagRank(t) ==
    CASE t = "" -> 0
      [] t = "Arts" -> 1
      [] t = "Dental" -> 2
      [] t = "Health" -> 3
      [] t = "N/A" -> 4
      [] t = "Sport" -> 5
      [] t = "services" -> 6

SeqToSet(s) == {s[i] : i \in 1..Len(s)}

\* str.split(", "): the empty string splits into one empty piece
Split(s) == IF s = <<>> THEN <<"">> ELSE s

\* ", ".join(list)
Join(l) == IF l = <<"">> THEN <<>> ELSE l

RECURSIVE SortedTags(_)
\* sorted(set of pieces)
SortedTags(S) ==
    IF S = {} THEN <<>>
    ELSE LET m == CHOOSE x \in S : \A y \in S : TagRank(x) <= TagRank(y)
         IN <<m>> \o SortedTags(S \ {m})

\* string comparison of two names, each the sequence of its pieces
NameLess(a, b) ==
    \E i \in 1..(Len(b)) :
        /\ \A h \in 1..(i - 1) : h <= Len(a) /\ a[h] = b[h]
        /\ \/ i > Len(a)
           \/ i <= Len(a) /\ TagRank(a[i]) < TagRank(b[i])

RECURSIVE JoinSortedNames(_)
\* ", ".join(sorted(set of names))
JoinSortedNames(S) ==
    IF S = {} THEN <<>>
    ELSE LET m == CHOOSE x \in S : \A y \in S \ {x} : NameLess(x, y)
         IN m \o JoinSortedNames(S \ {m})

-----------------------------------------------------------------------------
(* The worksheets *)

\* the column names of an output worksheet, in column order
headers ==
    <<"Timestamp", "main_state", "council_name", "services", "company_name",
      "service_area", "ndis_provider", "about", "outlet", "details_url", "location",
      "suburb", "state", "postal_code", "latitude", "longitude", "website", "phone",
      "subcategory_url">>

\* the header row of an output worksheet: a row is a record of its 19 cells, named
\* after the columns they stand in; a services cell is the sequence of its pieces
HeaderRow ==
    [header \in SeqToSet(headers) |-> IF header = "services" THEN <<header>> ELSE header]

\* datetime.now().strftime(...): the clock is not modelled, every timestamp reads the same
Timestamp == "ts"

\* the header row of a "Skipped Link" worksheet
SkippedHeaderRow ==
    [council_name |-> "council_name", category_name |-> <<"category_name">>,
     subcategory_name |-> <<"subcategory_name">>, company_name |-> "company_name",
     details_url |-> "details_url", outlet |-> "outlet", location |-> "location"]

\* worksheet.get_all_records(): the rows below the header row
get_all_records(sh) == IF sh = <<>> THEN <<>> ELSE Tail(sh)

\* worksheet.update_cell(row, col, value), columns counted from 1
update_cell(sh, row, col, value) == [sh EXCEPT ![row][headers[col]] = value]

\* the rows of the tracking sheet the model draws from: (council, subcategory URL, result)
TrackingRows ==
    { [council |-> COUNCIL_NAME, url |-> "u1", result |-> "5"],
      [council |-> COUNCIL_NAME, url |-> "u2", result |-> "12"],
      [council |-> COUNCIL_NAME, url |-> "U1", result |-> "7"],
      [council |-> COUNCIL_NAME, url |-> "u3", result |-> " 0"],
      [council |-> COUNCIL_NAME, url |-> "u3", result |-> "0"],
      [council |-> OtherCouncil, url |-> "u3", result |-> "5"] }

RECURSIVE SheetsUpTo(_, _)
\* the sheets of at most n rows over S, no row occurring twice
SheetsUpTo(S, n) ==
    IF n = 0 THEN {<<>>}
    ELSE LET shorter == SheetsUpTo(S, n - 1)
         IN shorter \cup UNION {{Append(q, x) : x \in S \ SeqToSet(q)} : q \in shorter}

\* itertools.dropwhile(Drop, s)
DropWhile(s, Drop(_)) ==
    LET kept == {i \in 1..Len(s) : ~Drop(s[i])}
    IN IF kept = {} THEN <<>>
       ELSE SubSeq(s, CHOOSE i \in kept : \A h \in kept : i <= h, Len(s))

\* the URLs of the entries, last entry first
UrlsOf_Reversed(data) == [i \in 1..Len(data) |-> data[Len(data) + 1 - i].subcategory_url]

\* [entry["subcategory_url"] for entry in data]
UrlsOf(data) == [i \in 1..Len(data) |-> data[i].subcategory_url]

-----------------------------------------------------------------------------
(* mycommunity.py: the site as the Selenium driver shows it *)

\* extract_outlet_from_url on the details URLs of the model
extract_outlet_from_url(details_url) ==
    CASE details_url = "D101" -> "101"
      [] details_url = "D102" -> "102"
      [] OTHER -> NA

\* the address a details page shows
LocationOf(details_url) ==
    CASE details_url = "D101" -> "1 High St"
      [] details_url = "D102" -> "2 Low St"
      [] OTHER -> "3 Mid St"

\* scrape_services_list on a page that loads: the listings of a subcategory page, in page order
scrape_services_list(url) ==
    CASE url = "u1" ->
           << [subcategory_url |-> url, company_name |-> "Acme", service_area |-> NA,
               ndis_provider |-> "No", details_url |-> "D101",
               category_name |-> <<"Health">>, subcategory_name |-> <<"Dental">>],
              [subcategory_url |-> url, company_name |-> "Bolt", service_area |-> NA,
               ndis_provider |-> "Yes", details_url |-> "D102",
               category_name |-> <<"Health">>, subcategory_name |-> <<"Dental">>] >>
      [] url = "u2" ->
           << [subcategory_url |-> url, company_name |-> "Acme", service_area |-> NA,
               ndis_provider |-> "No", details_url |-> "D101",
               category_name |-> <<"Sport", "Arts">>, subcategory_name |-> <<NA>>] >>
      [] OTHER ->
           << [subcategory_url |-> url, company_name |-> "Core", service_area |-> NA,
               ndis_provider |-> "No", details_url |-> "Dx",
               category_name |-> <<"Arts">>, subcategory_name |-> <<"Arts">>] >>

\* the details pages whose fetch may fail
FlakyDetails == {"D101", "L101", "L102"}

\* what a details page shows
DetailsPage(service_url) ==
    [about |-> "About", location |-> LocationOf(service_url), suburb |-> "Suburb",
     state |-> "VIC", postal_code |-> "3000", website |-> "Website", phone |-> "Phone",
     latitude |-> "Lat", longitude |-> "Lon"]

\* scrape_service_details: the data dictionary before the first attempt
DefaultDetails(service_url) ==
    [about |-> NA, location |-> NA, suburb |-> NA, state |-> NA, postal_code |-> NA,
     website |-> NA, phone |-> NA, latitude |-> NA, longitude |-> NA,
     outlet |-> extract_outlet_from_url(service_url)]

\* scrape_service_details: the default of its retries parameter
retries == 3

\* what an attempt does: it completes, or an exception is raised while the page loads
\* ("get"), after about was stored ("location"), or after about, location and phone
\* were stored ("website")
AttemptOutcomes == {"completes", "get", "location", "website"}

\* the data dictionary after an attempt with the given outcome
AfterAttempt(data, service_url, outcome) ==
    LET page == DetailsPage(service_url)
        Stored(fields) == [f \in DOMAIN data |-> IF f \in fields THEN page[f] ELSE data[f]]
    IN CASE outcome = "get" -> data
         [] outcome = "location" -> Stored({"about"})
         [] outcome = "website" -> Stored({"about", "location", "phone"})
         [] OTHER -> Stored(DOMAIN page)

RECURSIVE DetailsAttempts(_, _, _)
\* scrape_service_details: the for loop over the attempts, outcomes[i] being what the
\* i-th attempt does; the data returned, the attempts made, the waits, and whether an
\* attempt completed
DetailsAttempts(data, service_url, outcomes) ==
    IF outcomes = <<>>
    THEN [data |-> data, attempts |-> 0, sleeps |-> 0, completed |-> FALSE]
    ELSE IF Head(outcomes) = "completes"
         THEN [data |-> AfterAttempt(data, service_url, "completes"),
               attempts |-> 1, sleeps |-> 0, completed |-> TRUE]
         ELSE LET rest == DetailsAttempts(AfterAttempt(data, service_url, Head(outcomes)),
                                          service_url, Tail(outcomes))
              IN [rest EXCEPT !.attempts = @ + 1, !.sleeps = @ + 1]

scrape_service_details(service_url, outcomes) ==
    DetailsAttempts(DefaultDetails(service_url), service_url,
                    SubSeq(outcomes, 1, IF Len(outcomes) < retries THEN Len(outcomes) ELSE retries))

\* what the driver does on the details page of a run: every attempt completes or, for a
\* page whose fetch may fail, no attempt gets the page
DriverOutcomes(service_url) ==
    {[i \in 1..retries |-> "completes"]}
    \cup (IF service_url \in FlakyDetails THEN {[i \in 1..retries |-> "get"]} ELSE {})

-----------------------------------------------------------------------------
(* mycommunity.py: resume *)

\* headers.index(name): the first column whose header cell reads name, None when no
\* column does (ValueError); the services cell, a list of pieces, is not looked at
ColumnOf(header_row, name) ==
    LET cols == {i \in 1..Len(headers) :
                    headers[i] # "services" /\ header_row[headers[i]] = name}
    IN IF cols = {} THEN None ELSE headers[CHOOSE i \in cols : \A h \in cols : i <= h]

\* a lookup that reads the last row, whatever its cells and the header row hold
get_latest_scraped_entry_LastRow(data) ==
    IF Len(data) <= 1 THEN <<None, None, None>>
    ELSE <<data[Len(data)].subcategory_url, data[Len(data)].details_url,
           data[Len(data)].outlet>>

\* (subcategory_url, details_url, outlet) of the last row with a subcategory URL
get_latest_scraped_entry(data) ==
    IF Len(data) <= 1 THEN <<None, None, None>>
    ELSE LET rows == Tail(data)
             col_subcategory == ColumnOf(data[1], "subcategory_url")
             col_details == ColumnOf(data[1], "details_url")
             col_outlet == ColumnOf(data[1], "outlet")
         IN IF None \in {col_subcategory, col_details, col_outlet}
            THEN <<None, None, None>>
            ELSE LET filled == {i \in 1..Len(rows) : Strip(rows[i][col_subcategory]) # ""}
                     last == CHOOSE i \in filled : \A h \in filled : h <= i
                 IN IF filled = {} THEN <<None, None, None>>
                    ELSE <<rows[last][col_subcategory], rows[last][col_details],
                           rows[last][col_outlet]>>

\* fetch_subcategory_links, the tracking rows of the configured council with a result
EligibleLinks(tr) ==
    LET Eligible(row) == row.council = COUNCIL_NAME /\ Strip(row.result) # "0"
        rows == SelectSeq(tr, Eligible)
    IN [i \in 1..Len(rows) |->
           [main_state |-> "victoria", council_name |-> rows[i].council,
            subcategory_url |-> rows[i].url]]

\* a resume that starts after the last-scraped subcategory
ResumeFrom_AfterLast(subcategory_links, last_scraped_subcategory) ==
    LET Before(entry) == Lower(entry.subcategory_url) # Lower(last_scraped_subcategory)
        rest == DropWhile(subcategory_links, Before)
    IN IF rest = <<>> THEN <<>> ELSE Tail(rest)

\* fetch_subcategory_links, the links from the last-scraped subcategory on
ResumeFrom(subcategory_links, last_scraped_subcategory) ==
    LET Before(entry) == Lower(entry.subcategory_url) # Lower(last_scraped_subcategory)
    IN DropWhile(subcategory_links, Before)

fetch_subcategory_links(tr, last_scraped_subcategory) ==
    IF Len(tr) < 1 THEN <<>>
    ELSE IF last_scraped_subcategory # None /\ last_scraped_subcategory # ""
         THEN ResumeFrom(EligibleLinks(tr), last_scraped_subcategory)
         ELSE EligibleLinks(tr)

fetch_subcategory_metadata(subcategory_url, subcategory_links) ==
    LET found == {i \in 1..Len(subcategory_links) :
                     subcategory_links[i].subcategory_url = subcategory_url}
    IN IF found = {} THEN <<>>
       ELSE subcategory_links[CHOOSE i \in found : \A h \in found : i <= h]

-----------------------------------------------------------------------------
(* mycommunity.py: merge or append *)

\* a lookup that compares the outlet with the last data row only
MatchingRow_LastRowOnly(sh, outlet) ==
    IF Len(sh) >= 2 /\ Lower(Strip(sh[Len(sh)].outlet)) = Lower(Strip(outlet))
    THEN Len(sh) ELSE 0

\* a lookup that takes the last data row whose outlet matches
MatchingRow_LastMatch(sh, outlet) ==
    LET data == get_all_records(sh)
        hits == {i \in 1..Len(data) :
                    Lower(Strip(data[i].outlet)) = Lower(Strip(outlet))}
    IN IF hits = {} THEN 0 ELSE 1 + (CHOOSE i \in hits : \A h \in hits : h <= i)

\* the first data row whose outlet matches, as a row number of the sheet; 0 when none does
MatchingRow(sh, outlet) ==
    LET data == get_all_records(sh)
        hits == {i \in 1..Len(data) :
                    Lower(Strip(data[i].outlet)) = Lower(Strip(outlet))}
    IN IF hits = {} THEN 0 ELSE 1 + (CHOOSE i \in hits : \A h \in hits : i <= h)

get_existing_services(sh, outlet) ==
    IF MatchingRow(sh, outlet) = 0 THEN <<>> ELSE sh[MatchingRow(sh, outlet)].services

format_unique_categories(service) ==
    LET unique_categories ==
            {n \in {service.category_name, service.subcategory_name} :
                n # <<>> /\ n # <<NA>>}
    IN IF unique_categories = {} THEN <<NA>> ELSE JoinSortedNames(unique_categories)

\* a merge that overwrites the cell with the listing's categories
MergedCategories_Overwrite(existing_service_categories, new_categories) == new_categories

\* ", ".join(sorted(set(existing.split(", ")) | set(new.split(", "))))
MergedCategories(existing_service_categories, new_categories) ==
    Join(SortedTags(SeqToSet(Split(existing_service_categories))
                    \cup SeqToSet(Split(new_categories))))

\* entry.get(header, "N/A"); a cell that holds a list of pieces holds the piece "N/A"
Get(entry, header) ==
    IF header \in DOMAIN entry THEN entry[header]
    ELSE IF header \in {"services", "category_name", "subcategory_name"} THEN <<NA>>
    ELSE NA

SkippedEntry(data) ==
    [header \in {"council_name", "category_name", "subcategory_name", "company_name",
                 "details_url", "outlet", "location"} |-> Get(data, header)]

\* a ledger that logs every merge without looking for the entry
log_skipped_data_Always(sk, data) == Append(sk, SkippedEntry(data))

log_skipped_data(sk, data) ==
    IF \E i \in 2..Len(sk) : sk[i] = SkippedEntry(data)
    THEN sk
    ELSE Append(sk, SkippedEntry(data))

\* an update that deletes the matching row and appends it again with the new cell
update_google_sheets_MoveToEnd(sh, sk, outlet, updated_categories, combined_data) ==
    LET row == MatchingRow(sh, outlet)
    IN IF row = 0
       THEN [sheet |-> sh, skipped_sheet |-> sk]
       ELSE [sheet |-> SubSeq(sh, 1, row - 1) \o SubSeq(sh, row + 1, Len(sh))
                       \o <<[sh[row] EXCEPT !.services = updated_categories]>>,
             skipped_sheet |-> log_skipped_data(sk, combined_data)]

\* get_column_index: the first column, counted from 1, whose header cell reads
\* column_name when both are trimmed and lowercased; 0 when no column does (ValueError).
\* The header cell of the services column is a list of pieces, a name when it is one piece.
get_column_index(sh, column_name) ==
    LET Reads(header) ==
            IF header = "services"
            THEN /\ Len(sh[1][header]) = 1
                 /\ Lower(Strip(sh[1][header][1])) = Lower(Strip(column_name))
            ELSE Lower(Strip(sh[1][header])) = Lower(Strip(column_name))
        cols == IF sh = <<>> THEN {} ELSE {i \in 1..Len(headers) : Reads(headers[i])}
    IN IF cols = {} THEN 0 ELSE CHOOSE i \in cols : \A h \in cols : i <= h

\* the output sheet and the skipped sheet after update_google_sheets, and whether it
\* raised instead of returning
update_google_sheets(sh, sk, outlet, updated_categories, combined_data) ==
    LET column_index == get_column_index(sh, "services")
    IN IF column_index = 0
       THEN [sheet |-> sh, skipped_sheet |-> sk, raises |-> TRUE]
       ELSE IF MatchingRow(sh, outlet) = 0
            THEN [sheet |-> sh, skipped_sheet |-> sk, raises |-> FALSE]
            ELSE [sheet |-> update_cell(sh, MatchingRow(sh, outlet), column_index,
                                        updated_categories),
                  skipped_sheet |-> log_skipped_data(sk, combined_data),
                  raises |-> FALSE]

\* a save that inserts the header row whatever the first row is
save_to_google_sheets_AlwaysInsertHeader(sh, data) ==
    IF data = <<>> THEN sh
    ELSE LET rows == [i \in 1..Len(data) |->
                        [header \in SeqToSet(headers) |->
                            IF header = "Timestamp" THEN Timestamp
                            ELSE Get(data[i], header)]]
         IN <<HeaderRow>> \o sh \o rows

save_to_google_sheets(sh, data) ==
    IF data = <<>> THEN sh
    ELSE LET rows == [i \in 1..Len(data) |->
                        [header \in SeqToSet(headers) |->
                            IF header = "Timestamp" THEN Timestamp
                            ELSE Get(data[i], header)]]
         IN (IF sh = <<>> \/ sh[1] # HeaderRow THEN <<HeaderRow>> \o sh ELSE sh) \o rows

\* combined_data["services"] = new_categories
WithServices(combined_data, new_categories) ==
    [header \in DOMAIN combined_data \cup {"services"} |->
        IF header = "services" THEN new_categories ELSE combined_data[header]]

\* {**a, **b}
Merge(a, b) ==
    [key \in DOMAIN a \cup DOMAIN b |-> IF key \in DOMAIN b THEN b[key] ELSE a[key]]

\* {**metadata, **service, **service_details}
CombinedData(metadata, service, service_details) ==
    Merge(Merge(metadata, service), service_details)

\* an entry of the run's log: a fetch or a write, for listing j (0: the list page) of todo[k]
Event(op, sub, listing) == [op |-> op, url |-> todo[sub], k |-> sub, j |-> listing]

-----------------------------------------------------------------------------
(* The initial state: the worksheets as they are before the first run *)

NoCategoryInfo == [category_name |-> <<>>, subcategory_name |-> <<>>, services |-> <<>>]

\* no function is applied on its own during a run
NoCall == [fn |-> "none"]

Init ==
    /\ script \in {"mycommunity", "mycommunitydirectory"}
    /\ tracking \in SheetsUpTo(TrackingRows, MaxTrack)
    /\ sheet \in IF script = "mycommunity" THEN {<<>>, <<HeaderRow>>} ELSE {<<HeaderRow>>}
    /\ skipped_sheet = <<SkippedHeaderRow>>
    /\ pc = "idle"
    /\ runs = <<>>
    /\ last_scraped = None
    /\ subcategory_data = <<>>
    /\ subcategory_urls = <<>>
    /\ todo = <<>>
    /\ k = 0
    /\ items = <<>>
    /\ j = 0
    /\ category_info = NoCategoryInfo
    /\ existing_companies = <<>>
    /\ existing_skipped_data = {}
    /\ events = <<>>
    /\ call = NoCall
    /\ ret = <<>>

\* the run in progress notes whether a fetch succeeded
NoteFetch(ok) == runs' = [runs EXCEPT ![Len(runs)].failed = @ \/ ~ok]

\* the run in progress ends with the given outcome
EndRun(outcome) ==
    /\ pc' = "idle"
    /\ runs' = [runs EXCEPT ![Len(runs)].end = outcome,
                            ![Len(runs)].partial =
                                /\ outcome = "killed"
                                /\ pc = "sub"
                                /\ \E i \in 1..Len(events) :
                                       events[i].k = k /\ events[i].op = "append"]
    /\ last_scraped' = None
    /\ subcategory_data' = <<>>
    /\ subcategory_urls' = <<>>
    /\ todo' = <<>>
    /\ events' = <<>>
    /\ k' = 0
    /\ items' = <<>>
    /\ j' = 0
    /\ category_info' = NoCategoryInfo
    /\ existing_companies' = <<>>
    /\ existing_skipped_data' = {}

\* the loop over the listings of a subcategory moves on; after the last listing
\* the function returns and the for loop over the URLs moves on
NextListing ==
    IF j < Len(items)
    THEN /\ j' = j + 1
         /\ UNCHANGED <<pc, k, items, category_info, existing_companies, existing_skipped_data>>
    ELSE /\ pc' = "main"
         /\ k' = k + 1
         /\ items' = <<>>
         /\ j' = 0
         /\ category_info' = NoCategoryInfo
         /\ existing_companies' = <<>>
         /\ existing_skipped_data' = {}

-----------------------------------------------------------------------------
(* mycommunity.py: a run *)

\* main, up to the for loop
M_Start ==
    /\ script = "mycommunity"
    /\ pc = "idle"
    /\ Len(runs) < MaxRuns
    /\ LET last == get_latest_scraped_entry(sheet)[1]
           data == fetch_subcategory_links(tracking, last)
       IN /\ last_scraped' = last
          /\ subcategory_data' = data
          /\ subcategory_urls' = UrlsOf(data)
          /\ todo' = UrlsOf(data)
    /\ runs' = Append(runs, [end |-> "running", failed |-> FALSE, partial |-> FALSE])
    /\ pc' = "main"
    /\ k' = 1
    /\ events' = <<>>
    /\ UNCHANGED <<call, ret, script, tracking, sheet, skipped_sheet, items, j, category_info,
                   existing_companies, existing_skipped_data>>

\* scrape_and_save, up to the loop over the services
M_BeginSubcategory ==
    /\ script = "mycommunity"
    /\ pc = "main"
    /\ k <= Len(todo)
    /\ \E loaded \in BOOLEAN :
         /\ NoteFetch(loaded)
         /\ LET services == IF loaded THEN scrape_services_list(todo[k]) ELSE <<>>
            IN IF services = <<>>
               THEN /\ k' = k + 1
                    /\ UNCHANGED <<pc, items, j>>
               ELSE /\ pc' = "sub"
                    /\ items' = services
                    /\ j' = 1
                    /\ k' = k
    /\ events' = Append(events, Event("fetch", k, 0))
    /\ UNCHANGED <<call, ret, script, tracking, sheet, skipped_sheet, last_scraped, subcategory_data,
                   subcategory_urls, todo, category_info, existing_companies,
                   existing_skipped_data>>

\* scrape_and_save, one iteration of the loop over the services
M_ProcessService ==
    /\ script = "mycommunity"
    /\ pc = "sub"
    /\ \E outcomes \in DriverOutcomes(items[j].details_url) :
         /\ NoteFetch(scrape_service_details(items[j].details_url, outcomes).completed)
         /\ LET service == items[j]
                metadata == fetch_subcategory_metadata(todo[k], subcategory_data)
                service_details == scrape_service_details(service.details_url, outcomes).data
                combined_data == CombinedData(metadata, service, service_details)
                outlet == Strip(Get(combined_data, "outlet"))
                existing_service_categories == get_existing_services(sheet, outlet)
                new_categories == format_unique_categories(combined_data)
            IN IF existing_service_categories # <<>>
               THEN /\ LET updated == update_google_sheets(sheet, skipped_sheet, outlet,
                                           MergedCategories(existing_service_categories,
                                                            new_categories),
                                           combined_data)
                       IN /\ sheet' = updated.sheet
                          /\ skipped_sheet' = updated.skipped_sheet
                    /\ events' = events \o
                           <<Event("fetch", k, j), Event("update", k, j)>> \o
                           (IF skipped_sheet' # skipped_sheet
                            THEN <<Event("skipped", k, j)>> ELSE <<>>)
               ELSE /\ sheet' = save_to_google_sheets(sheet,
                                    <<WithServices(combined_data, new_categories)>>)
                    /\ events' = events \o <<Event("fetch", k, j), Event("append", k, j)>>
                    /\ UNCHANGED skipped_sheet
    /\ NextListing
    /\ UNCHANGED <<call, ret, script, tracking, last_scraped, subcategory_data, subcategory_urls, todo>>

\* main, the for loop is exhausted
M_Finish ==
    /\ script = "mycommunity"
    /\ pc = "main"
    /\ k > Len(todo)
    /\ EndRun("done")
    /\ UNCHANGED <<call, ret, script, tracking, sheet, skipped_sheet>>

-----------------------------------------------------------------------------
(* mycommunitydirectory.py: requests to Firecrawl *)

\* firecrawl_scrape: the number of attempts
max_retries == 3

\* requests.post raised, or the body of the response was not JSON
NoResponse == [status_code |-> 0, success |-> FALSE, html |-> ""]

\* what a request can get: a status code, the "success" field of the body and the page
Responses ==
    { [status_code |-> 200, success |-> TRUE, html |-> "A"],
      [status_code |-> 200, success |-> TRUE, html |-> "B"],
      [status_code |-> 200, success |-> FALSE, html |-> "A"],
      [status_code |-> 500, success |-> TRUE, html |-> "A"],
      [status_code |-> 500, success |-> FALSE, html |-> ""],
      NoResponse }

RECURSIVE FirecrawlAttempts(_, _)
\* firecrawl_scrape: the for loop over the attempts that are left, responses[i] being
\* what the i-th request gets; what the function returns (the data, None, or the
\* exception it lets through) and the requests and waits it made, in order
FirecrawlAttempts(responses, left) ==
    IF left = 0 \/ responses = <<>>
    THEN [returns |-> "None", log |-> <<>>]
    ELSE LET response == Head(responses)
         IN IF response = NoResponse
            THEN [returns |-> "raises", log |-> <<"post">>]
            ELSE IF response.status_code = 200 /\ response.success
                 THEN [returns |-> "data", success |-> TRUE, html |-> response.html,
                       log |-> <<"post">>]
                 ELSE LET rest == FirecrawlAttempts(Tail(responses), left - 1)
                      IN [rest EXCEPT !.log = <<"post", "sleep">> \o @]

\* a loop that makes one attempt more
firecrawl_scrape_FourAttempts(responses) == FirecrawlAttempts(responses, max_retries + 1)

firecrawl_scrape(responses) == FirecrawlAttempts(responses, max_retries)

\* what Firecrawl answers during a run: the page at the first request or, for a page
\* whose fetch may fail, an error at every request
FirecrawlAnswers(flaky) ==
    {[i \in 1..max_retries |-> [status_code |-> 200, success |-> TRUE, html |-> "A"]]}
    \cup (IF flaky
          THEN {[i \in 1..max_retries |-> [status_code |-> 500, success |-> FALSE, html |-> ""]]}
          ELSE {})

\* a value of Python is truthy: None is not, a non-empty dictionary is
Truthy(value) == DOMAIN value # {} /\ ("returns" \in DOMAIN value => value.returns = "data")

-----------------------------------------------------------------------------
(* mycommunitydirectory.py: the site as Firecrawl returns it *)

\* the breadcrumb titles and the result items of a subcategory page, in page order;
\* href is None for a result item without a profile link
PageOf(url) ==
    CASE Lower(url) = "u1" ->
           [crumbs |-> <<<<"Home">>, <<"Victoria">>, <<"Region">>, <<"Health">>, <<"Dental">>>>,
            results |-> << [company_name |-> "Acme", href |-> "L101"],
                           [company_name |-> "Acme", href |-> "L102"] >>]
      [] url = "u2" ->
           [crumbs |-> <<<<"Home">>, <<"Victoria">>, <<"Region">>, <<"Health">>>>,
            results |-> << [company_name |-> "Acme", href |-> "L101"],
                           [company_name |-> "Bolt", href |-> None],
                           [company_name |-> "Core", href |-> "L103"] >>]
      [] OTHER ->
           [crumbs |-> <<<<"Home">>, <<"Victoria">>, <<"Region">>>>,
            results |-> << [company_name |-> "Acme", href |-> "L102"] >>]

\* the second last part of the profile URL when it is numeric
OutletIdOf(link) ==
    CASE link = "L101" -> "101"
      [] link = "L102" -> "102"
      [] link = "L103" -> "103"
      [] OTHER -> NA

\* the address a profile page shows
ProfileLocationOf(link) ==
    CASE link = "L101" -> "1 High St"
      [] link = "L102" -> "2 Low St"
      [] OTHER -> "3 Mid St"

extract_category_info(page) ==
    LET categories == page.crumbs
    IN IF Len(categories) >= 4
       THEN [category_name |-> categories[4],
             subcategory_name |-> IF Len(categories) > 4 THEN categories[5] ELSE <<NA>>,
             services |-> IF Len(categories) > 4 THEN categories[4] \o categories[5]
                          ELSE categories[4]]
       ELSE [category_name |-> <<NA>>, subcategory_name |-> <<NA>>, services |-> <<NA>>]

extract_company_info(page) ==
    [i \in 1..Len(page.results) |->
        [company_name |-> page.results[i].company_name, ndis_provider |-> "No",
         service_area |-> NA]]

extract_links(page) ==
    LET HasHref(result) == result.href # None
        links == SelectSeq(page.results, HasHref)
    IN [i \in 1..Len(links) |-> links[i].href]

\* zip(companies, links)
Zip(companies, links) ==
    LET n == IF Len(companies) < Len(links) THEN Len(companies) ELSE Len(links)
    IN [i \in 1..n |-> Merge(companies[i], [details_url |-> links[i]])]

\* the details of a profile page; the "N/A" values when Firecrawl gave the page up
extract_details_from_link(link, data) ==
    IF ~Truthy(data) \/ ~data.success
    THEN [location |-> NA, suburb |-> NA, state |-> NA, postal_code |-> NA, phone |-> NA,
          website |-> NA, outlet_id |-> NA, latitude |-> NA, longitude |-> NA,
          about_us |-> NA]
    ELSE [location |-> ProfileLocationOf(link), suburb |-> "Suburb", state |-> "VIC",
          postal_code |-> "3000", phone |-> "Phone", website |-> "Website",
          outlet_id |-> OutletIdOf(link), latitude |-> "Lat", longitude |-> "Lon",
          about_us |-> "About"]

-----------------------------------------------------------------------------
(* mycommunitydirectory.py: resume *)

get_last_scraped_entry(sh) ==
    IF Len(sh) > 1 THEN sh[Len(sh)].subcategory_url ELSE None

\* a filter that forgets the council
get_subcategory_urls_AnyCouncil(tr) ==
    LET Eligible(row) == row.url # "" /\ row.result # "0"
        rows == SelectSeq(tr, Eligible)
    IN [i \in 1..Len(rows) |-> rows[i].url]

get_subcategory_urls(tr) ==
    LET Eligible(row) == row.url # "" /\ row.result # "0" /\ row.council = COUNCIL_NAME
        rows == SelectSeq(tr, Eligible)
    IN [i \in 1..Len(rows) |-> rows[i].url]

\* list.index: the first position of x in l, counted from 0
Index(l, x) == (CHOOSE i \in 1..Len(l) : l[i] = x /\ \A h \in 1..(i - 1) : l[h] # x) - 1

\* a resume that starts at the last scraped URL itself
ResumeStart_SameUrl(urls, last_scraped_url) ==
    IF last_scraped_url # None /\ last_scraped_url # ""
       /\ \E i \in 1..Len(urls) : urls[i] = last_scraped_url
    THEN Index(urls, last_scraped_url)
    ELSE 0

\* where the for loop over the URLs starts, counted from 0
ResumeStart(urls, last_scraped_url) ==
    IF last_scraped_url # None /\ last_scraped_url # ""
       /\ \E i \in 1..Len(urls) : urls[i] = last_scraped_url
    THEN Index(urls, last_scraped_url) + 1
    ELSE 0

-----------------------------------------------------------------------------
(* mycommunitydirectory.py: merge or append *)

\* {(row[4], row[8]): row[3] for row in existing_entries}: a later row replaces an earlier one
ExistingCompanies(sh) ==
    LET keys == {<<sh[i].company_name, sh[i].outlet>> : i \in 1..Len(sh)}
        LastRow(key) == CHOOSE i \in 1..Len(sh) :
                            /\ <<sh[i].company_name, sh[i].outlet>> = key
                            /\ \A h \in (i + 1)..Len(sh) :
                                   <<sh[h].company_name, sh[h].outlet>> # key
    IN [key \in keys |-> sh[LastRow(key)].services]

\* {(row[2], row[3], row[4], row[6]) for row in skipped_entries[1:]}
ExistingSkippedData(sk) ==
    {<<sk[i].category_name, sk[i].subcategory_name, sk[i].company_name, sk[i].outlet>> :
        i \in 2..Len(sk)}

\* existing_companies.get(key); the empty cell when there is no entry
GetExisting(companies, key) == IF key \in DOMAIN companies THEN companies[key] ELSE <<>>

\* sheet.find(company_name, in_column=5): the first row holding that company name; 0 when none does
find(sh, company_name) ==
    LET hits == {i \in 1..Len(sh) : sh[i].company_name = company_name}
    IN IF hits = {} THEN 0 ELSE CHOOSE i \in hits : \A h \in hits : i <= h

\* the orders in which list(set(...)) can list the set S
Orderings(S) ==
    {l \in [1..Cardinality(S) -> S] : \A a, b \in 1..Cardinality(S) : a # b => l[a] # l[b]}

\* the output sheet after the update of an existing entry
UpdateExistingEntry(sh, company_name, existing_services_list, updated_services_list) ==
    IF find(sh, company_name) # 0
       /\ SeqToSet(existing_services_list) # SeqToSet(updated_services_list)
    THEN update_cell(sh, find(sh, company_name), 4, Join(updated_services_list))
    ELSE sh

\* the row appended for a new entry
RowData(url, new_services, company, link, details) ==
    [Timestamp |-> Timestamp, main_state |-> "victoria", council_name |-> COUNCIL_NAME,
     services |-> new_services, company_name |-> company.company_name,
     service_area |-> company.service_area, ndis_provider |-> company.ndis_provider,
     about |-> details.about_us, outlet |-> details.outlet_id, details_url |-> link,
     location |-> details.location, suburb |-> details.suburb, state |-> details.state,
     postal_code |-> details.postal_code, latitude |-> details.latitude,
     longitude |-> details.longitude, website |-> details.website, phone |-> details.phone,
     subcategory_url |-> url]

\* the row appended to the skipped sheet
SkippedData(info, company, link, details) ==
    [council_name |-> COUNCIL_NAME, category_name |-> info.category_name,
     subcategory_name |-> info.subcategory_name, company_name |-> company.company_name,
     details_url |-> link, outlet |-> details.outlet_id, location |-> details.location]

-----------------------------------------------------------------------------
(* mycommunitydirectory.py: a run *)

\* the module's top level, up to the for loop
D_Start ==
    /\ script = "mycommunitydirectory"
    /\ pc = "idle"
    /\ Len(runs) < MaxRuns
    /\ LET urls == get_subcategory_urls(tracking)
           last == get_last_scraped_entry(sheet)
       IN /\ last_scraped' = last
          /\ subcategory_urls' = urls
          /\ todo' = SubSeq(urls, ResumeStart(urls, last) + 1, Len(urls))
    /\ runs' = Append(runs, [end |-> "running", failed |-> FALSE, partial |-> FALSE])
    /\ pc' = "main"
    /\ k' = 1
    /\ events' = <<>>
    /\ UNCHANGED <<call, ret, script, tracking, sheet, skipped_sheet, subcategory_data, items, j,
                   category_info, existing_companies, existing_skipped_data>>

\* scrape_subcategory, up to the loop over the listings
D_BeginSubcategory ==
    /\ script = "mycommunitydirectory"
    /\ pc = "main"
    /\ k <= Len(todo)
    /\ \E responses \in FirecrawlAnswers(TRUE) :
         /\ NoteFetch(Truthy(firecrawl_scrape(responses)))
         /\ LET main_data == firecrawl_scrape(responses)
                page == PageOf(todo[k])
                pairs == IF Truthy(main_data) /\ main_data.success
                         THEN Zip(extract_company_info(page), extract_links(page))
                         ELSE <<>>
            IN IF pairs = <<>>
               THEN /\ k' = k + 1
                    /\ UNCHANGED <<pc, items, j, category_info, existing_companies,
                                   existing_skipped_data>>
               ELSE /\ pc' = "sub"
                    /\ items' = pairs
                    /\ j' = 1
                    /\ k' = k
                    /\ category_info' = extract_category_info(page)
                    /\ existing_companies' = ExistingCompanies(sheet)
                    /\ existing_skipped_data' = ExistingSkippedData(skipped_sheet)
    /\ events' = Append(events, Event("fetch", k, 0))
    /\ UNCHANGED <<call, ret, script, tracking, sheet, skipped_sheet, last_scraped, subcategory_data,
                   subcategory_urls, todo>>

\* scrape_subcategory, one iteration of the loop over the listings
D_ProcessListing ==
    /\ script = "mycommunitydirectory"
    /\ pc = "sub"
    /\ \E responses \in FirecrawlAnswers(items[j].details_url \in FlakyDetails) :
         /\ NoteFetch(Truthy(firecrawl_scrape(responses)))
         /\ LET company == items[j]
                link == items[j].details_url
                details == extract_details_from_link(link, firecrawl_scrape(responses))
                key == <<company.company_name, details.outlet_id>>
                existing_services == GetExisting(existing_companies, key)
                new_services == category_info.services
            IN \* the loop over the attempts ends at the first truthy details, which
               \* every dictionary extract_details_from_link returns is
               IF ~Truthy(details)
               THEN /\ events' = Append(events, Event("fetch", k, j))
                    /\ existing_companies' = IF j < Len(items) THEN existing_companies ELSE <<>>
                    /\ UNCHANGED <<sheet, skipped_sheet>>
               ELSE
                    IF existing_services # <<>>
                       THEN \E updated_services_list \in
                                   Orderings(SeqToSet(Split(existing_services) \o Split(new_services))) :
                              /\ sheet' = UpdateExistingEntry(sheet, company.company_name,
                                              Split(existing_services), updated_services_list)
                              /\ skipped_sheet' =
                                   IF <<category_info.category_name, category_info.subcategory_name,
                                        company.company_name, details.outlet_id>> \notin existing_skipped_data
                                   THEN Append(skipped_sheet,
                                               SkippedData(category_info, company, link, details))
                                   ELSE skipped_sheet
                              /\ existing_companies' =
                                   IF j < Len(items)
                                   THEN [existing_companies EXCEPT ![key] = Join(updated_services_list)]
                                   ELSE <<>>
                              /\ events' = events \o <<Event("fetch", k, j)>> \o
                                   (IF sheet' # sheet THEN <<Event("update", k, j)>> ELSE <<>>) \o
                                   (IF skipped_sheet' # skipped_sheet
                                    THEN <<Event("skipped", k, j)>> ELSE <<>>)
                       ELSE /\ sheet' = Append(sheet, RowData(todo[k], new_services, company, link, details))
                            /\ events' = events \o <<Event("fetch", k, j), Event("append", k, j)>>
                            /\ existing_companies' = IF j < Len(items) THEN existing_companies ELSE <<>>
                            /\ UNCHANGED skipped_sheet
    /\ IF j < Len(items)
       THEN /\ j' = j + 1
            /\ UNCHANGED <<pc, k, items, category_info, existing_skipped_data>>
       ELSE /\ pc' = "main"
            /\ k' = k + 1
            /\ items' = <<>>
            /\ j' = 0
            /\ category_info' = NoCategoryInfo
            /\ existing_skipped_data' = {}
    /\ UNCHANGED <<call, ret, script, tracking, last_scraped, subcategory_data, subcategory_urls, todo>>

\* the module's top level, the for loop is exhausted or there was nothing to do
D_Finish ==
    /\ script = "mycommunitydirectory"
    /\ pc = "main"
    /\ k > Len(todo)
    /\ EndRun("done")
    /\ UNCHANGED <<call, ret, script, tracking, sheet, skipped_sheet>>

\* the process is stopped while a run is in progress
Interrupt ==
    /\ pc # "idle"
    /\ EndRun("killed")
    /\ UNCHANGED <<call, ret, script, tracking, sheet, skipped_sheet>>

Next ==
    \/ M_Start
    \/ M_BeginSubcategory
    \/ M_ProcessService
    \/ M_Finish
    \/ D_Start
    \/ D_BeginSubcategory
    \/ D_ProcessListing
    \/ D_Finish
    \/ Interrupt

Spec == Init /\ [][Next]_vars

-----------------------------------------------------------------------------
(* The functions applied on their own, to arguments drawn from bounded sets *)

MaxSheet == 3      \* rows below the first row of a worksheet argument
MaxData == 2       \* entries of a data argument

\* a row of an output worksheet as a run writes it
SheetRow(subcategory_url, details_url, outlet) ==
    [header \in SeqToSet(headers) |->
        CASE header = "Timestamp" -> Timestamp
          [] header = "subcategory_url" -> subcategory_url
          [] header = "details_url" -> details_url
          [] header = "outlet" -> outlet
          [] header = "services" -> <<"Health">>
          [] OTHER -> NA]

\* data rows of the worksheet arguments: two with a subcategory URL, two without
SheetRows ==
    { SheetRow("u1", "D101", "101"), SheetRow("u2", "D102", "102"),
      SheetRow(" ", "Dx", NA), SheetRow("", "D101", "101") }

\* first rows of the worksheet arguments: the header row, one that lacks the
\* subcategory_url header, one that lacks the outlet header, and one with the
\* details_url and outlet columns the other way round
FirstRows ==
    { HeaderRow,
      [HeaderRow EXCEPT !.subcategory_url = "Subcategory URL"],
      [HeaderRow EXCEPT !.outlet = "outlet_id"],
      [HeaderRow EXCEPT !.details_url = "outlet", !.outlet = "details_url"] }

SheetArgs ==
    {<<>>} \cup {<<first>> \o rows : first \in FirstRows, rows \in SheetsUpTo(SheetRows, MaxSheet)}

\* entries of the data arguments: a listing as scrape_and_save saves it, one without
\* metadata and services whose details could not be fetched, and one that has an outlet only
DataEntries ==
    { WithServices(CombinedData([main_state |-> "victoria", council_name |-> COUNCIL_NAME,
                                 subcategory_url |-> "u1"],
                                scrape_services_list("u1")[1],
                                scrape_service_details("D101", [i \in 1..retries |-> "completes"]).data),
                   <<"Dental", "Health">>),
      CombinedData(<<>>, scrape_services_list("u2")[1],
                   scrape_service_details("D101", [i \in 1..retries |-> "get"]).data),
      [outlet |-> "102"] }

\* last-scraped arguments: none, the empty cell, URLs of the tracking rows in either
\* case, and URLs that are on no tracking row
LastArgs == {None, "", "u1", "U1", "u2"} \cup {"u9", "u8"}

\* output worksheets handed to update_google_sheets: the empty worksheet, and rows below
\* the header row, below one that names the services column "Services", and below
\* one that has no services column
UpdateSheetArgs ==
    {<<>>} \cup {<<first>> \o rows :
                    first \in {HeaderRow, [HeaderRow EXCEPT !.services = <<"Services">>],
                               [HeaderRow EXCEPT !.services = <<"tags">>]},
                    rows \in SheetsUpTo(SheetRows, MaxSheet)}

\* skipped worksheets handed to update_google_sheets: the header row alone or with
\* the entry of one listing below it
LedgerArgs ==
    {<<SkippedHeaderRow>>} \cup {<<SkippedHeaderRow, SkippedEntry(d)>> : d \in DataEntries}

Calls ==
    {[fn |-> "firecrawl_scrape", responses |-> r] : r \in [1..(max_retries + 1) -> Responses]}
    \cup {[fn |-> "fetch_subcategory_links", tracking |-> t, last_scraped_subcategory |-> l] :
              t \in SheetsUpTo(TrackingRows, MaxTrack), l \in LastArgs}
    \cup {[fn |-> "get_latest_scraped_entry", data |-> d] : d \in SheetArgs}
    \cup {[fn |-> "scrape_service_details", service_url |-> u, outcomes |-> o] :
              u \in {"D101", "Dx"}, o \in [1..(retries + 1) -> AttemptOutcomes]}
    \cup {[fn |-> "save_to_google_sheets", sheet |-> sh, data |-> d] :
              sh \in SheetArgs, d \in SheetsUpTo(DataEntries, MaxData)}
    \cup {[fn |-> "update_google_sheets", sheet |-> sh, skipped_sheet |-> sk, outlet |-> o,
           updated_categories |-> c, combined_data |-> d] :
              sh \in UpdateSheetArgs, sk \in LedgerArgs, o \in {"101", "102", "n/a", "999"},
              c \in {<<"Health">>, <<"Dental", "Health">>}, d \in DataEntries}

CallInit ==
    /\ script = "mycommunity"
    /\ tracking = <<>>
    /\ sheet = <<>>
    /\ skipped_sheet = <<SkippedHeaderRow>>
    /\ pc = "call"
    /\ runs = <<>>
    /\ last_scraped = None
    /\ subcategory_data = <<>>
    /\ subcategory_urls = <<>>
    /\ todo = <<>>
    /\ k = 0
    /\ items = <<>>
    /\ j = 0
    /\ category_info = NoCategoryInfo
    /\ existing_companies = <<>>
    /\ existing_skipped_data = {}
    /\ events = <<>>
    /\ call \in Calls
    /\ ret = <<>>

\* the function returns
Return(value) ==
    /\ ret' = value
    /\ pc' = "returned"
    /\ UNCHANGED <<call, script, tracking, sheet, skipped_sheet, runs, last_scraped,
                   subcategory_data, subcategory_urls, todo, k, items, j, category_info,
                   existing_companies, existing_skipped_data, events>>

Call_firecrawl_scrape ==
    /\ pc = "call"
    /\ call.fn = "firecrawl_scrape"
    /\ Return(firecrawl_scrape(call.responses))

Call_fetch_subcategory_links ==
    /\ pc = "call"
    /\ call.fn = "fetch_subcategory_links"
    /\ Return(fetch_subcategory_links(call.tracking, call.last_scraped_subcategory))

Call_get_latest_scraped_entry ==
    /\ pc = "call"
    /\ call.fn = "get_latest_scraped_entry"
    /\ Return(get_latest_scraped_entry(call.data))

Call_scrape_service_details ==
    /\ pc = "call"
    /\ call.fn = "scrape_service_details"
    /\ Return(scrape_service_details(call.service_url, call.outcomes))

Call_save_to_google_sheets ==
    /\ pc = "call"
    /\ call.fn = "save_to_google_sheets"
    /\ Return(save_to_google_sheets(call.sheet, call.data))

Call_update_google_sheets ==
    /\ pc = "call"
    /\ call.fn = "update_google_sheets"
    /\ Return(update_google_sheets(call.sheet, call.skipped_sheet, call.outlet,
                                   call.updated_categories, call.combined_data))

CallNext ==
    \/ Call_firecrawl_scrape
    \/ Call_fetch_subcategory_links
    \/ Call_get_latest_scraped_entry
    \/ Call_scrape_service_details
    \/ Call_save_to_google_sheets
    \/ Call_update_google_sheets

CallSpec == CallInit /\ [][CallNext]_vars

-----------------------------------------------------------------------------
(* Vocabulary of the properties *)

\* two outlet values are the same outlet: compared trimmed and case-insensitively
SameOutlet(a, b) == Lower(Strip(a)) = Lower(Strip(b))

\* the step processes the listing items[j] of the subcategory being scraped
ListingStep == pc = "sub" /\ pc' # "idle" /\ j' # j

\* the cell lists exactly the tags of S, each once, in ascending order
IsSortedUnion(cell, S) ==
    /\ SeqToSet(cell) = S
    /\ \A a, b \in 1..Len(cell) : a < b => TagRank(cell[a]) < TagRank(cell[b])

\* the tags a listing of mycommunity.py brings: the pieces of its category and
\* subcategory names, "N/A" standing for a listing that names neither
NewTags(service) ==
    LET names == {service.category_name, service.subcategory_name} \ {<<>>, <<NA>>}
    IN IF names = {} THEN {NA} ELSE UNION {SeqToSet(n) : n \in names}

\* the last entry of the run's log
LastEvent == events[Len(events)]

\* the subcategory URLs the run has scraped so far, in the order it scraped them
Scraped ==
    LET IsPage(e) == e.op = "fetch" /\ e.j = 0
        pages == SelectSeq(events, IsPage)
    IN [i \in 1..Len(pages) |-> pages[i].url]

\* the for loop over the URLs is exhausted
LoopDone == pc = "main" /\ k > Len(todo)

IsPrefix(a, b) == Len(a) <= Len(b) /\ \A i \in 1..Len(a) : a[i] = b[i]

\* a is b with some entries left out, the order kept
IsSubsequence(a, b) ==
    \E f \in [1..Len(a) -> 1..Len(b)] :
        /\ \A i \in 1..Len(a) : a[i] = b[f[i]]
        /\ \A i, h \in 1..Len(a) : i < h => f[i] < f[h]

\* the least element of a non-empty set of numbers
Least(S) == CHOOSE i \in S : \A h \in S : i <= h

-----------------------------------------------------------------------------
(* Properties *)

\* C1: mycommunity.py, scrape_and_save: when the listing's outlet matches (trimmed,
\* case-insensitive) a row of the output sheet whose services cell is non-empty, no row
\* is appended and the services cell of the first matching row becomes the sorted union
\* of its tags and the listing's new tags.
C1_MergeIntoFirstMatch ==
    [][(script = "mycommunity" /\ ListingStep) =>
         LET outlet == extract_outlet_from_url(items[j].details_url)
             hits == {i \in 2..Len(sheet) : SameOutlet(sheet[i].outlet, outlet)}
             first == CHOOSE i \in hits : \A h \in hits : i <= h
         IN (\E i \in hits : sheet[i].services # <<>>) =>
               /\ Len(sheet') = Len(sheet)
               /\ IsSortedUnion(sheet'[first].services,
                                SeqToSet(sheet[first].services) \cup NewTags(items[j]))]_vars

\* C1 witness: a listing of the second subcategory was merged into the row of outlet 101,
\* which now carries the tags of both subcategories
C1_Witness ==
    /\ script = "mycommunity"
    /\ events # <<>>
    /\ LastEvent.op \in {"update", "skipped"}
    /\ \E i \in 2..Len(sheet) :
          sheet[i].outlet = "101" /\ sheet[i].services = <<"Arts", "Dental", "Health", "Sport">>

\* C2: mycommunity.py: from an empty or header-only output sheet, no two data rows
\* ever hold the same outlet (compared trimmed and case-insensitively).
C2_NoDuplicateOutlet ==
    script = "mycommunity" =>
        \A a, b \in 2..Len(sheet) : a # b => ~SameOutlet(sheet[a].outlet, sheet[b].outlet)

\* C2 witness: three outlets are on the sheet and a listing has just been merged
C2_Witness ==
    /\ script = "mycommunity"
    /\ Len(sheet) >= 4
    /\ events # <<>>
    /\ LastEvent.op \in {"update", "skipped"}

\* C3: mycommunitydirectory.py: no two data rows of the output sheet hold the same
\* (company_name, outlet_id) pair, whatever the scraped pages list.
C3_NoDuplicateEntry ==
    script = "mycommunitydirectory" =>
        \A a, b \in 2..Len(sheet) :
            a # b => <<sheet[a].company_name, sheet[a].outlet>>
                        # <<sheet[b].company_name, sheet[b].outlet>>

\* C4: mycommunitydirectory.py: a run reads the subcategory URL of the last row of the
\* output sheet; when that URL is in the eligible list, at idx, the run scrapes exactly the
\* URLs after idx, in list order (none when idx is the last), and otherwise, or when the
\* sheet has no data row, every eligible URL from the first on.
C4_ResumeAfterLast ==
    (script = "mycommunitydirectory" /\ pc # "idle") =>
        LET found == {i \in 1..Len(subcategory_urls) : subcategory_urls[i] = last_scraped}
            expected == IF found = {} THEN subcategory_urls
                        ELSE SubSeq(subcategory_urls, Least(found) + 1, Len(subcategory_urls))
        IN /\ events = <<>> =>
                last_scraped = IF Len(sheet) >= 2 THEN sheet[Len(sheet)].subcategory_url
                               ELSE None
           /\ IsPrefix(Scraped, expected)
           /\ LoopDone => Scraped = expected

\* C4 witness: a run that resumed inside the list has scraped the URLs after the last one
C4_Witness ==
    /\ script = "mycommunitydirectory"
    /\ LoopDone
    /\ Scraped # <<>>
    /\ Len(Scraped) < Len(subcategory_urls)
    /\ \E i \in 1..Len(subcategory_urls) : subcategory_urls[i] = last_scraped

\* C5: mycommunity.py: when a last-scraped subcategory URL exists and occurs among the
\* eligible tracking links, fetch_subcategory_links returns the eligible links from the
\* first one equal to it (case-insensitive) on, that one included, in order, and main
\* scrapes exactly those: the last-scraped subcategory is scraped again.
C5_ResumeFromLast ==
    (script = "mycommunity" /\ pc # "idle" /\ last_scraped \notin {None, ""}) =>
        LET Eligible(row) == row.council = COUNCIL_NAME /\ Strip(row.result) # "0"
            rows == SelectSeq(tracking, Eligible)
            eligible == [i \in 1..Len(rows) |-> rows[i].url]
            found == {i \in 1..Len(eligible) : Lower(eligible[i]) = Lower(last_scraped)}
            expected == SubSeq(eligible, Least(found), Len(eligible))
        IN found # {} =>
              /\ subcategory_urls = expected
              /\ IsPrefix(Scraped, expected)
              /\ LoopDone => Scraped = expected /\ Lower(Scraped[1]) = Lower(last_scraped)

\* C5 witness: a resumed run has scraped the last-scraped subcategory again and one
\* more, having left out an eligible link before them
C5_Witness ==
    /\ script = "mycommunity"
    /\ LoopDone
    /\ last_scraped # None
    /\ Len(Scraped) = 2
    /\ Lower(Scraped[1]) = Lower(last_scraped)
    /\ Len(tracking) = 3
    /\ \A i \in 1..3 : tracking[i].council = COUNCIL_NAME /\ Strip(tracking[i].result) # "0"

\* a listing of a subcategory page, as scrape_subcategory pairs company and link, is on
\* the output sheet: a row of its company and outlet carries the tags of the page
OnSheet(pair, info) ==
    \E i \in 2..Len(sheet) :
        /\ sheet[i].company_name = pair.company_name
        /\ sheet[i].outlet \in {OutletIdOf(pair.details_url), NA}
        /\ SeqToSet(info.services) \subseteq SeqToSet(sheet[i].services)

\* C6: mycommunitydirectory.py: after a run stopped when it had appended rows for some
\* but not all listings of a subcategory, followed by an uninterrupted run, every listing
\* of every eligible subcategory has been appended to or merged into the output sheet.
C6_InterruptedSubcategoryCompleted ==
    (/\ script = "mycommunitydirectory"
     /\ pc = "idle"
     /\ Len(runs) = 2
     /\ runs[1].end = "killed" /\ runs[1].partial /\ ~runs[1].failed
     /\ runs[2].end = "done" /\ ~runs[2].failed) =>
        \A u \in SeqToSet(get_subcategory_urls(tracking)) :
            LET pairs == Zip(extract_company_info(PageOf(u)), extract_links(PageOf(u)))
            IN \A i \in 1..Len(pairs) : OnSheet(pairs[i], extract_category_info(PageOf(u)))

\* the seven fields of a ledger row other than the timestamp are the whole row here
NoDuplicateSkippedEntry ==
    \A a, b \in 2..Len(skipped_sheet) : a # b => skipped_sheet[a] # skipped_sheet[b]

\* C7: mycommunity.py: no two data rows of the "Skipped Link" worksheet are equal in
\* their seven non-timestamp fields, and a step that logs an entry the ledger already
\* holds appends nothing: whenever the ledger changes, one row was appended and that
\* row was not there before.
C7_SkippedLoggedOnce ==
    /\ [](script = "mycommunity" => NoDuplicateSkippedEntry)
    /\ [][(script = "mycommunity" /\ skipped_sheet' # skipped_sheet) =>
            /\ Len(skipped_sheet') = Len(skipped_sheet) + 1
            /\ SubSeq(skipped_sheet', 1, Len(skipped_sheet)) = skipped_sheet
            /\ \A i \in 2..Len(skipped_sheet) :
                  skipped_sheet[i] # skipped_sheet'[Len(skipped_sheet')]]_vars

\* C7 witness: two merges are on the ledger and the merge just made, being on it
\* already, was not logged again
C7_Witness ==
    /\ script = "mycommunity"
    /\ Len(skipped_sheet) >= 3
    /\ events # <<>>
    /\ LastEvent.op = "update"

\* C8: mycommunitydirectory.py: no two data rows of the skipped sheet hold the same
\* (category_name, subcategory_name, company_name, outlet_id).
C8_NoDuplicateSkippedKey ==
    script = "mycommunitydirectory" =>
        \A a, b \in 2..Len(skipped_sheet) :
            a # b =>
               <<skipped_sheet[a].category_name, skipped_sheet[a].subcategory_name,
                 skipped_sheet[a].company_name, skipped_sheet[a].outlet>>
               # <<skipped_sheet[b].category_name, skipped_sheet[b].subcategory_name,
                   skipped_sheet[b].company_name, skipped_sheet[b].outlet>>

\* C9: both scripts: the subcategory URLs a run computes are those of tracking rows with
\* the configured council and a Result other than "0", in tracking-sheet order, and a
\* run scrapes no other URL.
C9_OnlyEligibleRows ==
    pc # "idle" =>
        LET Allowed(row) == row.council = COUNCIL_NAME /\ row.result # "0"
            rows == SelectSeq(tracking, Allowed)
            allowed == [i \in 1..Len(rows) |-> rows[i].url]
        IN /\ IsSubsequence(subcategory_urls, allowed)
           /\ SeqToSet(Scraped) \subseteq SeqToSet(allowed)

\* C9 witness: of three tracking rows, one of another council and one with Result "0",
\* the run has scraped the only eligible one
C9_Witness ==
    /\ LoopDone
    /\ Len(tracking) = 3
    /\ \E i \in 1..3 : tracking[i].council # COUNCIL_NAME
    /\ \E i \in 1..3 : tracking[i].result = "0"
    /\ Len(Scraped) = 1

\* the row of the tracking sheet a scraped URL comes from
TrackingRowOf(url) ==
    Least({i \in 1..Len(tracking) :
              tracking[i].url = url /\ tracking[i].council = COUNCIL_NAME
              /\ tracking[i].result # "0"})

\* C10: both scripts: a run is sequential: the log of its fetches and writes goes through
\* the subcategories in tracking-sheet order and, within a subcategory, through the
\* listings in page order, each listing's writes following its fetch, so every write
\* for a subcategory precedes every fetch for the next one.
C10_Sequential ==
    \A a, b \in 1..Len(events) :
        a < b =>
           /\ \/ events[a].k < events[b].k
              \/ events[a].k = events[b].k /\ events[a].j <= events[b].j
           /\ events[a].k < events[b].k =>
                 TrackingRowOf(events[a].url) < TrackingRowOf(events[b].url)
           /\ (events[a].k = events[b].k /\ events[a].j = events[b].j) =>
                 events[b].op # "fetch"

\* C10 witness: a run has written for two listings of one subcategory and gone on to
\* fetch the next subcategory
C10_Witness ==
    /\ \E a, b \in 1..Len(events) :
          /\ a < b
          /\ events[a].op \in {"append", "update"} /\ events[b].op \in {"append", "update"}
          /\ events[a].k = 1 /\ events[b].k = 1 /\ events[a].j = 1 /\ events[b].j = 2
    /\ LastEvent.op = "fetch" /\ LastEvent.k = 2 /\ LastEvent.j = 0

\* C14: mycommunitydirectory.py, scrape_subcategory: a listing whose details could not
\* be extracted, Firecrawl having given the profile page up, is skipped: no row is
\* appended to the output sheet, no cell of it is changed and nothing is written to the
\* skipped sheet for it.
C14_FailedDetailsSkipped ==
    [][(/\ script = "mycommunitydirectory"
        /\ ListingStep
        /\ ~runs[Len(runs)].failed
        /\ runs'[Len(runs)].failed) =>
           sheet' = sheet /\ skipped_sheet' = skipped_sheet]_vars

\* C16: mycommunitydirectory.py: when a listing whose profile page was fetched is merged
\* into the sheet, the only services cell that changes is that of a row whose
\* company_name and outlet_id are the listing's; the services cell of every other row,
\* a row of the same company with another outlet_id included, stays as it was.
C16_UpdateMatchingRow ==
    [][(/\ script = "mycommunitydirectory"
        /\ ListingStep
        /\ ~runs'[Len(runs)].failed) =>
           \A i \in 1..Len(sheet) :
               sheet'[i].services # sheet[i].services =>
                   /\ sheet[i].company_name = items[j].company_name
                   /\ sheet[i].outlet = OutletIdOf(items[j].details_url)]_vars

\* C17: mycommunity.py: the output sheet only grows: every step keeps each data row at
\* its place among the data rows with every cell but services as it was, keeps every tag
\* of its services cell, and deletes no row.
C17_SheetOnlyGrows ==
    [][script = "mycommunity" =>
         LET old == get_all_records(sheet)
             new == get_all_records(sheet')
         IN /\ Len(new) >= Len(old)
            /\ \A i \in 1..Len(old) :
                  /\ SeqToSet(old[i].services) \subseteq SeqToSet(new[i].services)
                  /\ [new[i] EXCEPT !.services = old[i].services] = old[i]]_vars

\* C17 witness: the services cell of the first data row has grown by a merge while
\* another row stands below it
C17_Witness ==
    /\ script = "mycommunity"
    /\ Len(sheet) = 3
    /\ sheet[2].outlet = "101" /\ Len(sheet[2].services) > 2
    /\ sheet[3].outlet = "102"
    /\ events # <<>>
    /\ LastEvent.op \in {"update", "skipped"}

\* C18: mycommunitydirectory.py: after a run that went through every eligible
\* subcategory with no fetch failing, the site and the tracking sheet being as they were,
\* the next run finds its start beyond the list: it scrapes no subcategory and reports
\* that all subcategories are already scraped.
C18_NothingLeftAfterCompleteRun ==
    (/\ script = "mycommunitydirectory"
     /\ Len(runs) = 2
     /\ runs[1].end = "done" /\ ~runs[1].failed
     /\ pc # "idle") =>
        todo = <<>>

\* C19: mycommunity.py: a run that follows a run which went through every eligible
\* subcategory with no fetch failing processes listings for the second time only (same
\* outlet, same category and subcategory): each such step leaves every cell of the
\* output sheet as it was and appends no row.
C19_SecondProcessingChangesNothing ==
    [][(/\ script = "mycommunity"
        /\ ListingStep
        /\ Len(runs) = 2
        /\ runs[1].end = "done" /\ ~runs[1].failed
        /\ ~runs'[2].failed) =>
           sheet' = sheet]_vars


\* C22: mycommunitydirectory.py: every data row of the output sheet holds the company
\* name, service area and NDIS flag of one result item of its subcategory page together
\* with the details link of that same item and the outlet_id and location of that link
\* (or the "N/A" the row gets for them when the profile page could not be fetched), also
\* on a page where a result item has no href.
C22_RowPairsOneResultItem ==
    script = "mycommunitydirectory" =>
        \A r \in 2..Len(sheet) :
            LET page == PageOf(sheet[r].subcategory_url)
                companies == extract_company_info(page)
            IN \E i \in 1..Len(page.results) :
                  /\ sheet[r].company_name = companies[i].company_name
                  /\ sheet[r].service_area = companies[i].service_area
                  /\ sheet[r].ndis_provider = companies[i].ndis_provider
                  /\ sheet[r].details_url = page.results[i].href
                  /\ sheet[r].outlet \in {OutletIdOf(page.results[i].href), NA}
                  /\ sheet[r].location \in {ProfileLocationOf(page.results[i].href), NA}

-----------------------------------------------------------------------------
(* Properties of the functions applied on their own *)

\* the call of the named function has returned
Returned(fn) == pc = "returned" /\ call.fn = fn

C12_FallBackToAllLinks ==
    Returned("fetch_subcategory_links") =>
        LET last == call.last_scraped_subcategory
            Eligible(row) == row.council = COUNCIL_NAME /\ Strip(row.result) # "0"
            rows == SelectSeq(call.tracking, Eligible)
        IN (/\ last \notin {None, ""}
            /\ \A i \in 1..Len(rows) : Lower(rows[i].url) # Lower(last)) =>
              /\ Len(ret) = Len(rows)
              /\ \A i \in 1..Len(rows) : ret[i].subcategory_url = rows[i].url

\* the columns of the sheet whose header cell reads name
ColumnsNamed(data, name) ==
    {c \in SeqToSet(headers) \ {"services"} : data[1][c] = name}

\* the cell of row i in the column whose header cell reads name
Under(data, i, name) == data[i][CHOOSE c \in ColumnsNamed(data, name) : TRUE]

\* C13: get_latest_scraped_entry returns (None, None, None) when the sheet has at most
\* one row, when the header row lacks subcategory_url, details_url or outlet, or when
\* every data row has a blank subcategory_url after trimming; otherwise it returns the
\* subcategory_url, details_url and outlet cells of the bottom-most data row whose
\* subcategory_url is not blank after trimming.
C13_LatestScrapedEntry ==
    Returned("get_latest_scraped_entry") =>
        LET data == call.data
            required == {"subcategory_url", "details_url", "outlet"}
            filled == {i \in 2..Len(data) : Strip(Under(data, i, "subcategory_url")) # ""}
            bottom == CHOOSE i \in filled : \A h \in filled : h <= i
        IN IF \/ Len(data) <= 1
              \/ \E name \in required : ColumnsNamed(data, name) = {}
              \/ filled = {}
           THEN ret = <<None, None, None>>
           ELSE /\ ret = <<Under(data, bottom, "subcategory_url"),
                           Under(data, bottom, "details_url"), Under(data, bottom, "outlet")>>
                /\ \A i \in (bottom + 1)..Len(data) :
                      Strip(Under(data, i, "subcategory_url")) = ""

\* C13 witness: two rows without a subcategory URL lie below the row that was returned
C13_Witness ==
    /\ Returned("get_latest_scraped_entry")
    /\ Len(call.data) = 4
    /\ call.data[1] = HeaderRow
    /\ call.data[3].subcategory_url = " " /\ call.data[4].subcategory_url = ""
    /\ ret = <<"u2", "D102", "102">>

\* C15: scrape_service_details makes at most 3 attempts and returns at the first that
\* completes; when every attempt raises, whatever it had stored before, the data
\* returned holds "N/A" in every field but outlet, which holds the outlet of the URL.
C15_DefaultsAfterFailedAttempts ==
    Returned("scrape_service_details") =>
        LET outcomes == call.outcomes
        IN /\ ret.attempts <= 3
           /\ \A i \in 1..3 :
                 (outcomes[i] = "completes" /\ \A h \in 1..(i - 1) : outcomes[h] # "completes") =>
                     ret.completed /\ ret.attempts = i
           /\ (\A i \in 1..3 : outcomes[i] # "completes") =>
                 /\ ~ret.completed
                 /\ ret.data.outlet = extract_outlet_from_url(call.service_url)
                 /\ \A field \in DOMAIN ret.data \ {"outlet"} : ret.data[field] = NA

\* C20: save_to_google_sheets: with an empty list the sheet stays as it is; with n >= 1
\* entries the first row is afterwards the header row of 19 columns, inserted above the
\* existing rows only when the sheet was empty or its first row was not that header row;
\* the existing rows keep their content and order; and exactly n rows of 19 cells follow
\* them, one per entry in entry order, each cell below a column other than Timestamp
\* holding the entry's field of that name, or "N/A" when the entry has no such field.
C20_SaveAppendsRows ==
    Returned("save_to_google_sheets") =>
        LET sh == call.sheet
            data == call.data
            n == Len(data)
            shift == IF sh = <<>> \/ sh[1] # HeaderRow THEN 1 ELSE 0
        IN IF n = 0 THEN ret = sh
           ELSE /\ Cardinality(DOMAIN ret[1]) = 19
                /\ \A c \in 1..19 : ret[1][headers[c]] = IF headers[c] = "services"
                                                          THEN <<"services">> ELSE headers[c]
                /\ Len(ret) = Len(sh) + shift + n
                /\ \A i \in 1..Len(sh) : ret[i + shift] = sh[i]
                /\ \A i \in 1..n :
                      LET row == ret[Len(sh) + shift + i]
                      IN /\ Cardinality(DOMAIN row) = 19
                         /\ \A c \in 2..19 :
                               row[headers[c]] =
                                   IF headers[c] \in DOMAIN data[i] THEN data[i][headers[c]]
                                   ELSE IF headers[c] = "services" THEN <<NA>> ELSE NA

\* C20 witness: two entries, the second with an outlet only, were saved to a sheet of
\* three rows whose first row was not the header row
C20_Witness ==
    /\ Returned("save_to_google_sheets")
    /\ Len(call.sheet) = 3
    /\ call.sheet[1] # HeaderRow
    /\ Len(call.data) = 2
    /\ call.data[2] = [outlet |-> "102"]
    /\ Len(ret) = 6
    /\ ret[1] = HeaderRow
    /\ ret[6].outlet = "102" /\ ret[6].company_name = NA

\* the data rows of a worksheet whose outlet cell reads the outlet, trimmed and lowercased,
\* as row numbers of the worksheet
RowsOfOutlet(sh, outlet) ==
    {r \in 2..Len(sh) : Lower(Strip(sh[r].outlet)) = Lower(Strip(outlet))}

\* the header row has a column that reads "services", trimmed and lowercased
HasServicesColumn(sh) ==
    /\ sh # <<>>
    /\ Len(sh[1].services) = 1
    /\ Lower(Strip(sh[1].services[1])) = "services"

\* C21: update_google_sheets changes no cell but the services cell of the first data row
\* whose outlet matches, trimmed and case-insensitive, which then holds the updated
\* categories, and afterwards the listing's entry is on the skipped ledger, appended
\* below the rows the ledger had unless it was there already; when no row matches, the
\* sheet and the ledger are left as they were. A call on a sheet without a services
\* column ends in get_column_index's ValueError and changes nothing either.
C21_UpdateOneCell ==
    Returned("update_google_sheets") =>
        LET sh == call.sheet
            sk == call.skipped_sheet
            hits == RowsOfOutlet(sh, call.outlet)
            entry == SkippedEntry(call.combined_data)
        IN /\ ret.raises <=> ~HasServicesColumn(sh)
           /\ (ret.raises \/ hits = {}) => ret.sheet = sh /\ ret.skipped_sheet = sk
           /\ (~ret.raises /\ hits # {}) =>
                  /\ Len(ret.sheet) = Len(sh)
                  /\ \A r \in 1..Len(sh) : \A header \in SeqToSet(headers) :
                         IF r = Least(hits) /\ header = "services"
                         THEN ret.sheet[r][header] = call.updated_categories
                         ELSE ret.sheet[r][header] = sh[r][header]
                  /\ IsPrefix(sk, ret.skipped_sheet)
                  /\ \E i \in 2..Len(ret.skipped_sheet) : ret.skipped_sheet[i] = entry
                  /\ Len(ret.skipped_sheet) =
                         IF \E i \in 2..Len(sk) : sk[i] = entry THEN Len(sk) ELSE Len(sk) + 1

\* two data rows match the outlet and the first of them is not the first data row: its
\* services cell alone was rewritten with other categories and the ledger grew by the entry
C21_Witness ==
    /\ Returned("update_google_sheets")
    /\ ~ret.raises
    /\ Cardinality(RowsOfOutlet(call.sheet, call.outlet)) = 2
    /\ Least(RowsOfOutlet(call.sheet, call.outlet)) = 3
    /\ ret.sheet[3].services # call.sheet[3].services
    /\ ret.sheet[4] = call.sheet[4]
    /\ Len(ret.skipped_sheet) = Len(call.skipped_sheet) + 1

====
